---------------------------- MODULE Spec2Model ----------------------------
(***************************************************************************)
(* POSIX synchronization layer of nng (src/platform/posix/posix_synch.c):  *)
(* one error-checking mutex, one condition variable bound to it, the       *)
(* process-wide condition attribute of nni_cond_attr, and the deadline     *)
(* arithmetic of nni_cond_timedwait.                                       *)
(*                                                                         *)
(* The pthread primitives are modelled by their POSIX behaviour at the     *)
(* line that calls them.  A blocking call is split at the point where the  *)
(* thread sleeps: the call step, and the step that lets it return.         *)
(***************************************************************************)
EXTENDS Integers, FiniteSets, Sequences, TLC

VARIABLES
    pc,        \* pc[t]: where thread t is inside the mutex / condvar API
    mxowner,   \* owner recorded in m->mx (0: unlocked)
    held,      \* threads that returned from an acquire and did not release yet
    ret,       \* ret[t]: t's last locking or waiting call, once it has returned
    panic,     \* the nni_panic that ended the process, NoPanic while it runs
    clock,     \* nni_clock(), microseconds, as an unsigned 64-bit value
    dl,        \* dl[t]: usec after "usec += nni_clock()" of t's timed wait
    owed,      \* owed[t]: the signal or broadcast addressed to t inside its wait
    apc,       \* apc[t]: where thread t is inside nni_cond_attr
    init,      \* static int init of nni_cond_attr
    attr,      \* static pthread_condattr_t attr of nni_cond_attr
    amx,       \* owner of the static pthread_mutex_t mx of nni_cond_attr
    computed,  \* number of completed computations (init set to 1)
    aret,      \* aret[t]: what t's last nni_cond_attr call returned
    synced,    \* threads whose reads are ordered after the store init = 1
    tsarg,     \* usec argument of the deadline computation under study
    ts,        \* the struct timespec it produced
    mstate,    \* the pthread_mutex_t m->mx: "none", "live" or "destroyed"
    mshape,    \* how it was constructed: "create" (heap) or "init" (in place)
    heap,      \* blocks obtained from nni_alloc for a mutex and not yet freed
    fault,     \* native call that failed in the latest mutex construction
    misuse,    \* first contract violation of a caller against the lifecycle
    cret,      \* result of the latest nni_cond_create call, with its cause
    cvp,       \* what that call stored through cvp
    cblk       \* blocks that call allocated and left allocated

cvars == <<pc, mxowner, held, ret, dl, owed>>
avars == <<apc, init, attr, amx, computed, aret, synced>>
tvars == <<tsarg, ts>>
lvars == <<mstate, mshape, heap, fault, misuse>>
crvars == <<cret, cvp, cblk>>
vars == <<pc, mxowner, held, ret, panic, clock, dl, owed,
          apc, init, attr, amx, computed, aret, synced, tsarg, ts,
          mstate, mshape, heap, fault, misuse, cret, cvp, cblk>>

\* ------------------------------------------------------------------ bounds
NThreads == 3
NTimed == 2
MaxTicks == 2

Threads == 1..NThreads
\* The threads that take part in the timed-wait liveness check.
TimedThreads == 1..NTimed

\* ------------------------------------------------- unsigned 64-bit values
\* A uint64_t is three decimal limbs <<a, b, c>> of six digits each:
\* a * 10^12 + b * 10^6 + c.  The limb base is the divisor of line 244.
USEC_PER_SEC == 1000000
NSEC_MODULUS == 10000
NSEC_PER_USEC == 1000
NSEC_PER_SEC == NSEC_PER_USEC * USEC_PER_SEC

TwoPow64 == <<18446744, 73709, 551616>>
MaxU64 == <<18446744, 73709, 551615>>
U64Zero == <<0, 0, 0>>

U64(n) == <<0, n \div USEC_PER_SEC, n % USEC_PER_SEC>>

U64Less(x, y) ==
    \/ x[1] < y[1]
    \/ x[1] = y[1] /\ x[2] < y[2]
    \/ x[1] = y[1] /\ x[2] = y[2] /\ x[3] < y[3]

U64Leq(x, y) == x = y \/ U64Less(x, y)

\* The mathematical sum, not reduced.
U64Sum(x, y) ==
    LET c == x[3] + y[3]
        b == x[2] + y[2] + (c \div USEC_PER_SEC)
        a == x[1] + y[1] + (b \div USEC_PER_SEC)
    IN  <<a, b % USEC_PER_SEC, c % USEC_PER_SEC>>

\* x - y for y <= x.
U64Diff(x, y) ==
    LET c  == x[3] - y[3]
        bc == IF c < 0 THEN 1 ELSE 0
        b  == x[2] - y[2] - bc
        bb == IF b < 0 THEN 1 ELSE 0
    IN  <<x[1] - y[1] - bb, b + bb * USEC_PER_SEC, c + bc * USEC_PER_SEC>>

\* uint64_t addition: the sum modulo 2^64 (line 242).
U64Add(x, y) ==
    LET s == U64Sum(x, y)
    IN  IF U64Less(s, TwoPow64) THEN s ELSE U64Diff(s, TwoPow64)

\* ---------------------------------------------------- deadline arithmetic
\* Lines 244-245 with the seconds rounded up instead of down.
Timespec_rounds_up(usec) ==
    [tv_sec  |-> <<usec[1], usec[2] + 1>>,
     tv_nsec |-> (usec[3] % NSEC_MODULUS) * NSEC_PER_USEC]

\* Lines 244-245 with the constants of line 245 exchanged:
\* ts.tv_nsec = (usec % 1000) * 10000.
Timespec_swapped_factors(usec) ==
    [tv_sec  |-> <<usec[1], usec[2]>>,
     tv_nsec |-> (usec[3] % NSEC_PER_USEC) * NSEC_MODULUS]

\* Lines 244-245: ts.tv_sec = usec / 1000000 (kept as two limbs),
\*                ts.tv_nsec = (usec % 10000) * 1000.
\* 10000 divides the limb base, so usec % 10000 is the low limb % 10000.
Timespec(usec) ==
    [tv_sec  |-> <<usec[1], usec[2]>>,
     tv_nsec |-> (usec[3] % NSEC_MODULUS) * NSEC_PER_USEC]

\* Line 242: usec += nni_clock().
Deadline(usec, now) == U64Add(usec, now)

\* The clock of the condition variable read as a struct timespec.
ClockTimespec(now) ==
    [tv_sec  |-> <<now[1], now[2]>>,
     tv_nsec |-> now[3] * NSEC_PER_USEC]

\* abstime has passed: system time equals or exceeds abstime.
Passed(abstime, now) ==
    LET n == ClockTimespec(now)
    IN  \/ n.tv_sec[1] > abstime.tv_sec[1]
        \/ n.tv_sec[1] = abstime.tv_sec[1] /\ n.tv_sec[2] > abstime.tv_sec[2]
        \/ n.tv_sec = abstime.tv_sec /\ n.tv_nsec >= abstime.tv_nsec

ValidTimespec(t) == t.tv_nsec >= 0 /\ t.tv_nsec < NSEC_PER_SEC

\* ------------------------------------------------------------ the process
NoPanic == [by |-> 0, msg |-> ""]
NoRet == [op |-> "", rv |-> ""]
Returned(op, rv) == [op |-> op, rv |-> rv]

\* nni_panic: logs the message and terminates the process.
nni_panic(t, msg) == panic' = [by |-> t, msg |-> msg]

Running == panic = NoPanic

\* nni_clock() advances; the clock is monotonic.
TickStep == NSEC_MODULUS \div 2
MaxClock == U64(MaxTicks * TickStep)
UsecArgs == {0, TickStep, 2 * TickStep}

Untimed == {"cwait", "cwoken"}
Timed == {"twait", "twoken", "ttimeo"}
InWait(t) == pc[t] \in Untimed \cup Timed
\* Threads asleep on c->cv.
Blocked == {t \in Threads : pc[t] \in {"cwait", "twait"}}

\* ------------------------------------------------------------------ mutex
\* Lines 100-106, the call: the thread enters pthread_mutex_lock.
nni_mutex_enter(t) ==
    /\ Running /\ pc[t] = "idle"
    /\ pc' = [pc EXCEPT ![t] = "lock"]
    /\ ret' = [ret EXCEPT ![t] = NoRet]
    /\ UNCHANGED <<mxowner, held, panic, clock, dl, owed>>
    /\ UNCHANGED <<avars, tvars, lvars, crvars>>

\* pthread_mutex_lock on a mutex whose type was not set to
\* PTHREAD_MUTEX_ERRORCHECK: the owner's second lock is not detected.
pthread_mutex_lock_unchecked(t) ==
    /\ Running /\ pc[t] = "lock"
    /\ mxowner = 0
    /\ mxowner' = t
    /\ held' = held \cup {t}
    /\ pc' = [pc EXCEPT ![t] = "idle"]
    /\ ret' = [ret EXCEPT ![t] = Returned("nni_mutex_enter", "")]
    /\ UNCHANGED <<panic, clock, dl, owed>>
    /\ UNCHANGED <<avars, tvars, lvars, crvars>>

\* Line 103: pthread_mutex_lock on the error-checking mutex of lines 71-75
\* returns 0 once the mutex is free, EDEADLK when the caller owns it
\* (line 104: panic), and sleeps while another thread owns it.
pthread_mutex_lock(t) ==
    /\ Running /\ pc[t] = "lock"
    /\ \/ /\ mxowner = 0
          /\ mxowner' = t
          /\ held' = held \cup {t}
          /\ pc' = [pc EXCEPT ![t] = "idle"]
          /\ ret' = [ret EXCEPT ![t] = Returned("nni_mutex_enter", "")]
          /\ UNCHANGED panic
       \/ /\ mxowner = t
          /\ nni_panic(t, "pthread_mutex_lock failed")
          /\ UNCHANGED <<mxowner, held, pc, ret>>
    /\ UNCHANGED <<clock, dl, owed>>
    /\ UNCHANGED <<avars, tvars, lvars, crvars>>

\* nni_mutex_exit on a mutex whose type was not set to
\* PTHREAD_MUTEX_ERRORCHECK: any thread's unlock releases the mutex.
nni_mutex_exit_unchecked(t) ==
    /\ Running /\ pc[t] = "idle"
    /\ mxowner' = 0
    /\ held' = held \ {t}
    /\ ret' = [ret EXCEPT ![t] = NoRet]
    /\ UNCHANGED <<pc, panic, clock, dl, owed>>
    /\ UNCHANGED <<avars, tvars, lvars, crvars>>

\* Lines 109-115: pthread_mutex_unlock returns EPERM when the caller does
\* not own the error-checking mutex.
nni_mutex_exit(t) ==
    /\ Running /\ pc[t] = "idle"
    /\ \/ /\ mxowner = t
          /\ mxowner' = 0
          /\ held' = held \ {t}
          /\ ret' = [ret EXCEPT ![t] = NoRet]
          /\ UNCHANGED panic
       \/ /\ mxowner # t
          /\ nni_panic(t, "pthread_mutex_unlock failed")
          /\ UNCHANGED <<mxowner, held, ret>>
    /\ UNCHANGED <<pc, clock, dl, owed>>
    /\ UNCHANGED <<avars, tvars, lvars, crvars>>

\* nni_mutex_tryenter calling pthread_mutex_lock: the caller sleeps (or
\* deadlocks on itself) when the mutex is held.
nni_mutex_tryenter_blocks(t) ==
    /\ Running /\ pc[t] = "idle"
    /\ \/ /\ mxowner = 0
          /\ mxowner' = t
          /\ held' = held \cup {t}
          /\ ret' = [ret EXCEPT ![t] = Returned("nni_mutex_tryenter", "0")]
          /\ UNCHANGED pc
       \/ /\ mxowner # 0
          /\ pc' = [pc EXCEPT ![t] = "lock"]
          /\ ret' = [ret EXCEPT ![t] = NoRet]
          /\ UNCHANGED <<mxowner, held>>
    /\ UNCHANGED <<panic, clock, dl, owed>>
    /\ UNCHANGED <<avars, tvars, lvars, crvars>>

\* nni_mutex_tryenter with the test of line 121 inverted (== 0).
nni_mutex_tryenter_inverted(t) ==
    /\ Running /\ pc[t] = "idle"
    /\ \/ /\ mxowner = 0
          /\ mxowner' = t
          /\ ret' = [ret EXCEPT ![t] = Returned("nni_mutex_tryenter", "NNG_EBUSY")]
          /\ UNCHANGED held
       \/ /\ mxowner # 0
          /\ ret' = [ret EXCEPT ![t] = Returned("nni_mutex_tryenter", "0")]
          /\ held' = held \cup {t}
          /\ UNCHANGED mxowner
    /\ UNCHANGED <<pc, panic, clock, dl, owed>>
    /\ UNCHANGED <<avars, tvars, lvars, crvars>>

\* Lines 118-125: pthread_mutex_trylock returns EBUSY when the mutex is
\* locked, by any thread.
nni_mutex_tryenter(t) ==
    /\ Running /\ pc[t] = "idle"
    /\ \/ /\ mxowner = 0
          /\ mxowner' = t
          /\ held' = held \cup {t}
          /\ ret' = [ret EXCEPT ![t] = Returned("nni_mutex_tryenter", "0")]
       \/ /\ mxowner # 0
          /\ ret' = [ret EXCEPT ![t] = Returned("nni_mutex_tryenter", "NNG_EBUSY")]
          /\ UNCHANGED <<mxowner, held>>
    /\ UNCHANGED <<pc, panic, clock, dl, owed>>
    /\ UNCHANGED <<avars, tvars, lvars, crvars>>

\* ----------------------------------------------------- condition variable
\* Threads a signal or broadcast issued now is addressed to: those inside
\* an untimed wait, and those inside a timed wait whose requested deadline
\* (entry time + usec) nni_clock() has not reached.
Addressed ==
    {w \in Threads : /\ InWait(w)
                     /\ pc[w] \in Timed => U64Less(clock, dl[w])}

\* The one thread inside a wait, when a signal can only be meant for it.
SoleWaiter == {w \in Addressed : \A u \in Threads : InWait(u) => u = w}

Notify(W, how) == [w \in Threads |-> IF w \in W THEN how ELSE owed[w]]

Wake(W) ==
    [w \in Threads |-> IF w \in W
                       THEN (IF pc[w] = "cwait" THEN "cwoken" ELSE "twoken")
                       ELSE pc[w]]

\* nni_cond_signal whose wakeup is lost.
nni_cond_signal_lost(t) ==
    /\ Running /\ pc[t] = "idle"
    /\ owed' = Notify(SoleWaiter, "signal")
    /\ UNCHANGED <<pc, mxowner, held, ret, panic, clock, dl>>
    /\ UNCHANGED <<avars, tvars, lvars, crvars>>

\* Lines 209-215: pthread_cond_signal unblocks at least one of the threads
\* blocked on c->cv, if any; it does not fail on an initialised condvar.
nni_cond_signal(t) ==
    /\ Running /\ pc[t] = "idle"
    /\ \/ /\ Blocked = {}
          /\ UNCHANGED pc
          /\ owed' = Notify(SoleWaiter, "signal")
       \/ /\ Blocked # {}
          /\ \E W \in (SUBSET Blocked) \ {{}} :
                /\ pc' = Wake(W)
                /\ owed' = Notify(W \cup SoleWaiter, "signal")
    /\ UNCHANGED <<mxowner, held, ret, panic, clock, dl>>
    /\ UNCHANGED <<avars, tvars, lvars, crvars>>

\* nni_cond_broadcast calling pthread_cond_signal: one sleeper is woken.
nni_cond_broadcast_wakes_one(t) ==
    /\ Running /\ pc[t] = "idle"
    /\ \/ /\ Blocked = {}
          /\ UNCHANGED pc
       \/ \E w \in Blocked : pc' = Wake({w})
    /\ owed' = Notify(Addressed, "broadcast")
    /\ UNCHANGED <<mxowner, held, ret, panic, clock, dl>>
    /\ UNCHANGED <<avars, tvars, lvars, crvars>>

\* Lines 218-224: pthread_cond_broadcast unblocks all threads blocked on
\* c->cv.
nni_cond_broadcast(t) ==
    /\ Running /\ pc[t] = "idle"
    /\ pc' = Wake(Blocked)
    /\ owed' = Notify(Addressed, "broadcast")
    /\ UNCHANGED <<mxowner, held, ret, panic, clock, dl>>
    /\ UNCHANGED <<avars, tvars, lvars, crvars>>

\* nni_cond_wait sleeping on c->cv without releasing c->mx.
nni_cond_wait_keeps_mutex(t) ==
    /\ Running /\ pc[t] = "idle"
    /\ mxowner = t
    /\ pc' = [pc EXCEPT ![t] = "cwait"]
    /\ ret' = [ret EXCEPT ![t] = NoRet]
    /\ UNCHANGED <<mxowner, held, panic, clock, dl, owed>>
    /\ UNCHANGED <<avars, tvars, lvars, crvars>>

\* Lines 227-233, the call: pthread_cond_wait releases c->mx and blocks;
\* EPERM when the caller does not own the error-checking mutex (panic).
nni_cond_wait(t) ==
    /\ Running /\ pc[t] = "idle"
    /\ \/ /\ mxowner = t
          /\ mxowner' = 0
          /\ held' = held \ {t}
          /\ pc' = [pc EXCEPT ![t] = "cwait"]
          /\ ret' = [ret EXCEPT ![t] = NoRet]
          /\ UNCHANGED panic
       \/ /\ mxowner # t
          /\ nni_panic(t, "pthread_cond_wait failed")
          /\ UNCHANGED <<mxowner, held, pc, ret>>
    /\ UNCHANGED <<clock, dl, owed>>
    /\ UNCHANGED <<avars, tvars, lvars, crvars>>

\* pthread_cond_wait and pthread_cond_timedwait may wake spuriously.
SpuriousWakeup(t) ==
    /\ Running /\ t \in Blocked
    /\ pc' = Wake({t})
    /\ UNCHANGED <<mxowner, held, ret, panic, clock, dl, owed>>
    /\ UNCHANGED <<avars, tvars, lvars, crvars>>

\* Line 230, the return: the woken thread re-acquires c->mx and
\* pthread_cond_wait returns 0.
cond_wait_return(t) ==
    /\ Running /\ pc[t] = "cwoken"
    /\ mxowner = 0
    /\ mxowner' = t
    /\ held' = held \cup {t}
    /\ pc' = [pc EXCEPT ![t] = "idle"]
    /\ ret' = [ret EXCEPT ![t] = Returned("nni_cond_wait", "")]
    /\ owed' = [owed EXCEPT ![t] = ""]
    /\ UNCHANGED <<panic, clock, dl>>
    /\ UNCHANGED <<avars, tvars, lvars, crvars>>

\* Lines 236-247, the call: the deadline is computed once, then
\* pthread_cond_timedwait returns EINVAL for an invalid abstime and EPERM
\* when the caller does not own the mutex (line 252: panic); otherwise it
\* releases c->mx, and times out at once when abstime has already passed.
nni_cond_timedwait(t, usec) ==
    /\ Running /\ pc[t] = "idle"
    /\ U64Leq(U64Sum(U64(usec), clock), MaxClock)
    /\ LET d == Deadline(U64(usec), clock)
           abstime == Timespec(d)
       IN  \/ /\ mxowner = t /\ ValidTimespec(abstime)
              /\ mxowner' = 0
              /\ held' = held \ {t}
              /\ dl' = [dl EXCEPT ![t] = d]
              /\ pc' = [pc EXCEPT ![t] =
                            IF Passed(abstime, clock) THEN "ttimeo" ELSE "twait"]
              /\ ret' = [ret EXCEPT ![t] = NoRet]
              /\ UNCHANGED panic
           \/ /\ mxowner # t \/ ~ValidTimespec(abstime)
              /\ nni_panic(t, "pthread_cond_timedwait returned")
              /\ UNCHANGED <<mxowner, held, dl, pc, ret>>
    /\ UNCHANGED <<clock, owed>>
    /\ UNCHANGED <<avars, tvars, lvars, crvars>>

\* Line 247: abstime passes before the condition is signalled.
cond_timedwait_timeout(t) ==
    /\ Running /\ pc[t] = "twait"
    /\ Passed(Timespec(dl[t]), clock)
    /\ pc' = [pc EXCEPT ![t] = "ttimeo"]
    /\ UNCHANGED <<mxowner, held, ret, panic, clock, dl, owed>>
    /\ UNCHANGED <<avars, tvars, lvars, crvars>>

\* nni_cond_timedwait returning NNG_ETIMEDOUT without c->mx re-acquired.
cond_timedwait_return_unlocked(t) ==
    /\ Running /\ pc[t] \in {"twoken", "ttimeo"}
    /\ pc[t] = "twoken" => mxowner = 0
    /\ mxowner' = IF pc[t] = "twoken" THEN t ELSE mxowner
    /\ held' = IF pc[t] = "twoken" THEN held \cup {t} ELSE held
    /\ pc' = [pc EXCEPT ![t] = "idle"]
    /\ ret' = [ret EXCEPT ![t] =
                  Returned("nni_cond_timedwait",
                           IF pc[t] = "ttimeo" THEN "NNG_ETIMEDOUT" ELSE "0")]
    /\ dl' = [dl EXCEPT ![t] = U64Zero]
    /\ owed' = [owed EXCEPT ![t] = ""]
    /\ UNCHANGED <<panic, clock>>
    /\ UNCHANGED <<avars, tvars, lvars, crvars>>

\* Lines 247-254, the return: c->mx is re-acquired, then ETIMEDOUT becomes
\* NNG_ETIMEDOUT and 0 stays 0.
cond_timedwait_return(t) ==
    /\ Running /\ pc[t] \in {"twoken", "ttimeo"}
    /\ mxowner = 0
    /\ mxowner' = t
    /\ held' = held \cup {t}
    /\ pc' = [pc EXCEPT ![t] = "idle"]
    /\ ret' = [ret EXCEPT ![t] =
                  Returned("nni_cond_timedwait",
                           IF pc[t] = "ttimeo" THEN "NNG_ETIMEDOUT" ELSE "0")]
    /\ dl' = [dl EXCEPT ![t] = U64Zero]
    /\ owed' = [owed EXCEPT ![t] = ""]
    /\ UNCHANGED <<panic, clock>>
    /\ UNCHANGED <<avars, tvars, lvars, crvars>>

\* nni_clock() moves on.
Tick ==
    /\ Running
    /\ U64Less(clock, MaxClock)
    /\ clock' = U64Add(clock, U64(TickStep))
    /\ UNCHANGED <<pc, mxowner, held, ret, panic, dl, owed>>
    /\ UNCHANGED <<avars, tvars, lvars, crvars>>

\* --------------------------------------------------------- specification
\* What nni_cond_attr gave its caller: the return value, the pointer
\* stored in *attrpp, and the content of attr as the caller sees it.
NoAttr == [rv |-> "", ref |-> "", seen |-> ""]
AttrOk(seen) == [rv |-> "0", ref |-> "&attr", seen |-> seen]
AttrFail == [rv |-> "NNG_ENOMEM", ref |-> "", seen |-> ""]

AttrIdle ==
    /\ apc = [t \in Threads |-> "idle"]
    /\ init = 0
    /\ attr = "uninit"
    /\ amx = 0
    /\ computed = 0
    /\ aret = [t \in Threads |-> NoAttr]
    /\ synced = {}

\* struct timespec ts before lines 244-245 have run.
NoTs == [tv_sec |-> <<0, 0>>, tv_nsec |-> -1]

TimeIdle ==
    /\ tsarg = U64Zero
    /\ ts = NoTs

\* One mutex from nni_mutex_create, one condvar from nni_cond_create on it,
\* no thread inside a call.
SyncIdle ==
    /\ pc = [t \in Threads |-> "idle"]
    /\ mxowner = 0
    /\ held = {}
    /\ ret = [t \in Threads |-> NoRet]
    /\ panic = NoPanic
    /\ dl = [t \in Threads |-> U64Zero]
    /\ owed = [t \in Threads |-> ""]

\* The mutex of SyncIdle: constructed by nni_mutex_create, never misused.
LifeLive ==
    /\ mstate = "live"
    /\ mshape = "create"
    /\ heap = 1
    /\ fault = ""
    /\ misuse = ""

\* Result of nni_cond_create: the value returned, the call that made it
\* fail, and the attribute contents handed to pthread_cond_init.
NoCreate == [by |-> 0, rv |-> "", why |-> "", passed |-> ""]
Created(t, a) == [by |-> t, rv |-> "0", why |-> "", passed |-> a]
CreateFailed(t, why, a) ==
    [by |-> t, rv |-> "NNG_ENOMEM", why |-> why, passed |-> a]

\* No nni_cond_create call has been made by the threads of the model.
CreateIdle ==
    /\ cret = NoCreate
    /\ cvp = "unset"
    /\ cblk = 0

Init ==
    /\ SyncIdle
    /\ clock = U64Zero
    /\ AttrIdle
    /\ TimeIdle
    /\ LifeLive
    /\ CreateIdle

Next ==
    \/ \E t \in Threads :
          \/ nni_mutex_enter(t)
          \/ pthread_mutex_lock(t)
          \/ nni_mutex_exit(t)
          \/ nni_mutex_tryenter(t)
          \/ nni_cond_signal(t)
          \/ nni_cond_broadcast(t)
          \/ nni_cond_wait(t)
          \/ SpuriousWakeup(t)
          \/ cond_wait_return(t)
          \/ \E usec \in UsecArgs : nni_cond_timedwait(t, usec)
          \/ cond_timedwait_timeout(t)
          \/ cond_timedwait_return(t)
    \/ Tick

Spec == Init /\ [][Next]_vars

\* Scheduling assumed by the liveness claims: a thread that can take the
\* mutex infinitely often takes it, and a thread that holds the mutex
\* releases it.
MutexFairness ==
    \A t \in Threads :
        /\ SF_vars(pthread_mutex_lock(t))
        /\ WF_vars(nni_mutex_exit(t) /\ mxowner = t)

\* The mutex and the untimed condition variable operations, fairly
\* scheduled.  No fairness on signal, broadcast or spurious wakeups: nothing
\* wakes a sleeper unless a thread chooses to.
NextSync ==
    \E t \in Threads :
        \/ nni_mutex_enter(t)
        \/ pthread_mutex_lock(t)
        \/ nni_mutex_exit(t)
        \/ nni_mutex_tryenter(t)
        \/ nni_cond_signal(t)
        \/ nni_cond_broadcast(t)
        \/ nni_cond_wait(t)
        \/ SpuriousWakeup(t)
        \/ cond_wait_return(t)

FairSpec ==
    /\ Init /\ [][NextSync]_vars
    /\ MutexFairness
    /\ \A t \in Threads : SF_vars(cond_wait_return(t))

\* The timed wait under contention for its mutex, fairly scheduled: time
\* passes and an elapsed deadline ends the sleep.
NextTimed ==
    \/ \E t \in TimedThreads :
          \/ nni_mutex_enter(t)
          \/ pthread_mutex_lock(t)
          \/ nni_mutex_exit(t)
          \/ nni_cond_signal(t)
          \/ SpuriousWakeup(t)
          \/ \E usec \in UsecArgs : nni_cond_timedwait(t, usec)
          \/ cond_timedwait_timeout(t)
          \/ cond_timedwait_return(t)
    \/ Tick

FairSpecTimed ==
    /\ Init /\ [][NextTimed]_vars
    /\ MutexFairness
    /\ WF_vars(Tick)
    /\ \A t \in TimedThreads :
          /\ WF_vars(cond_timedwait_timeout(t))
          /\ SF_vars(cond_timedwait_return(t))

\* ------------------------------------- the deadline arithmetic on its own
\* Lines 242-245 applied to one (nni_clock(), usec) pair drawn from values
\* on both sides of the 10000 and 1000000 boundaries and of the wrap of
\* the 64-bit addition.
LowLimbs == {0, 1, 9999, 10000, 500000, 999999}
ClockSamples == {<<0, b, c>> : b \in {0, 1}, c \in LowLimbs}
UsecSamples ==
    {u \in {<<a, b, c>> : a \in {0, 18446744}, b \in {0, 1, 73709},
                          c \in LowLimbs \cup {551615}} : U64Leq(u, MaxU64)}

timedwait_deadline ==
    /\ ts = NoTs
    /\ ts' = Timespec(Deadline(tsarg, clock))
    /\ UNCHANGED <<tsarg, clock, panic, cvars, avars, lvars, crvars>>

InitTime ==
    /\ SyncIdle
    /\ AttrIdle
    /\ LifeLive
    /\ CreateIdle
    /\ clock \in ClockSamples
    /\ tsarg \in UsecSamples
    /\ ts = NoTs

NextTime == timedwait_deadline

SpecTime == InitTime /\ [][NextTime]_vars

\* ------------------------------------------- nni_cond_attr, monotonic build
AttrStates == <<"uninit", "inited", "clockset">>
AttrRank(a) == CHOOSE i \in 1..3 : AttrStates[i] = a

\* Values the unlocked read of line 146 can yield.  The read races with the
\* store of line 161 unless the reader has locked mx since that store.
InitSeen(t) == IF init = 1 /\ t \notin synced THEN {0, 1} ELSE {init}

\* Content of attr a thread can see through the returned pointer: the
\* current one once ordered after the writer, any earlier one before that.
AttrSeen(t) ==
    IF t \in synced THEN {attr}
    ELSE {AttrStates[i] : i \in 1..AttrRank(attr)}

\* Lines 146-151: the unlocked test of init; the fast path returns &attr,
\* the slow path goes on to pthread_mutex_lock(&mx).
nni_cond_attr(t) ==
    /\ Running /\ apc[t] = "idle"
    /\ \E v \in InitSeen(t) :
          \/ /\ v = 1
             /\ \E a \in AttrSeen(t) : aret' = [aret EXCEPT ![t] = AttrOk(a)]
             /\ UNCHANGED apc
          \/ /\ v = 0
             /\ apc' = [apc EXCEPT ![t] = "lock"]
             /\ aret' = [aret EXCEPT ![t] = NoAttr]
    /\ UNCHANGED <<init, attr, amx, computed, synced>>
    /\ UNCHANGED <<cvars, tvars, panic, clock, lvars, crvars>>

\* Lines 151-152 with the first test of init under the lock skipped (a
\* do-while, or the value read at line 146 reused).
attr_lock_skips_test(t) ==
    /\ Running /\ apc[t] = "lock"
    /\ amx = 0
    /\ amx' = t
    /\ synced' = IF init = 1 THEN synced \cup {t} ELSE synced
    /\ apc' = [apc EXCEPT ![t] = "condattr_init"]
    /\ UNCHANGED <<init, attr, computed, aret>>
    /\ UNCHANGED <<cvars, tvars, panic, clock, lvars, crvars>>

\* Line 151: pthread_mutex_lock(&mx) returns once mx is free; the lock
\* orders the thread after every earlier critical section.
attr_lock(t) ==
    /\ Running /\ apc[t] = "lock"
    /\ amx = 0
    /\ amx' = t
    /\ synced' = IF init = 1 THEN synced \cup {t} ELSE synced
    /\ apc' = [apc EXCEPT ![t] = "loop"]
    /\ UNCHANGED <<init, attr, computed, aret>>
    /\ UNCHANGED <<cvars, tvars, panic, clock, lvars, crvars>>

\* Line 152: while (!init), under the lock.
attr_loop(t) ==
    /\ Running /\ apc[t] = "loop"
    /\ apc' = [apc EXCEPT ![t] = IF init = 0 THEN "condattr_init" ELSE "unlock"]
    /\ UNCHANGED <<init, attr, amx, computed, aret, synced>>
    /\ UNCHANGED <<cvars, tvars, panic, clock, lvars, crvars>>

\* Lines 153-156 without the pthread_mutex_unlock of line 154.
attr_condattr_init_keeps_lock(t) ==
    /\ Running /\ apc[t] = "condattr_init"
    /\ \/ /\ attr' = "inited"
          /\ apc' = [apc EXCEPT ![t] = "setclock"]
          /\ UNCHANGED aret
       \/ /\ aret' = [aret EXCEPT ![t] = AttrFail]
          /\ apc' = [apc EXCEPT ![t] = "idle"]
          /\ UNCHANGED attr
    /\ UNCHANGED <<init, amx, computed, synced>>
    /\ UNCHANGED <<cvars, tvars, panic, clock, lvars, crvars>>

\* Lines 153-156: pthread_condattr_init; on failure mx is unlocked and
\* NNG_ENOMEM returned, init left 0.
attr_condattr_init(t) ==
    /\ Running /\ apc[t] = "condattr_init"
    /\ \/ /\ attr' = "inited"
          /\ apc' = [apc EXCEPT ![t] = "setclock"]
          /\ UNCHANGED <<amx, aret>>
       \/ /\ amx' = 0
          /\ aret' = [aret EXCEPT ![t] = AttrFail]
          /\ apc' = [apc EXCEPT ![t] = "idle"]
          /\ UNCHANGED attr
    /\ UNCHANGED <<init, computed, synced>>
    /\ UNCHANGED <<cvars, tvars, panic, clock, lvars, crvars>>

\* Lines 157-160: pthread_condattr_setclock(&attr, NNG_USE_CLOCKID); a
\* failure is fatal.
attr_setclock(t) ==
    /\ Running /\ apc[t] = "setclock"
    /\ \/ /\ attr' = "clockset"
          /\ apc' = [apc EXCEPT ![t] = "setinit"]
          /\ UNCHANGED panic
       \/ /\ nni_panic(t, "condattr_setclock")
          /\ UNCHANGED <<attr, apc>>
    /\ UNCHANGED <<init, amx, computed, aret, synced>>
    /\ UNCHANGED <<cvars, tvars, clock, lvars, crvars>>

\* Line 161: init = 1, which completes the computation.
attr_setinit(t) ==
    /\ Running /\ apc[t] = "setinit"
    /\ init' = 1
    /\ computed' = computed + 1
    /\ synced' = synced \cup {t}
    /\ apc' = [apc EXCEPT ![t] = "loop"]
    /\ UNCHANGED <<attr, amx, aret>>
    /\ UNCHANGED <<cvars, tvars, panic, clock, lvars, crvars>>

\* Lines 163-165: unlock, *attrpp = &attr, return 0.
attr_unlock(t) ==
    /\ Running /\ apc[t] = "unlock"
    /\ amx' = 0
    /\ aret' = [aret EXCEPT ![t] = AttrOk(attr)]
    /\ apc' = [apc EXCEPT ![t] = "idle"]
    /\ UNCHANGED <<init, attr, computed, synced>>
    /\ UNCHANGED <<cvars, tvars, panic, clock, lvars, crvars>>

\* nni_cond_create without the nni_free of line 191.
nni_cond_create_leaks(t) ==
    /\ Running /\ apc[t] = "idle"
    /\ aret[t] # NoAttr
    /\ \/ /\ aret[t].rv # "0"
          /\ cret' = CreateFailed(t, "nni_cond_attr", "")
          /\ cvp' = "unset"
          /\ cblk' = 0
       \/ /\ aret[t].rv = "0"
          /\ \/ /\ cret' = CreateFailed(t, "nni_alloc", "")
                /\ cvp' = "unset"
                /\ cblk' = 0
             \/ /\ cret' = CreateFailed(t, "pthread_cond_init", aret[t].seen)
                /\ cvp' = "unset"
                /\ cblk' = 1
             \/ /\ cret' = Created(t, aret[t].seen)
                /\ cvp' = "c"
                /\ cblk' = 1
    /\ aret' = [aret EXCEPT ![t] = NoAttr]
    /\ UNCHANGED <<apc, init, attr, amx, computed, synced>>
    /\ UNCHANGED <<cvars, tvars, panic, clock, lvars>>

\* Lines 182-195, once the nni_cond_attr call of line 182 has returned:
\* its failure is returned as it is; nni_alloc may fail; pthread_cond_init
\* gets the attribute as the thread sees it, and may fail, after which the
\* block is freed; only then is *cvp written.
nni_cond_create(t) ==
    /\ Running /\ apc[t] = "idle"
    /\ aret[t] # NoAttr
    /\ \/ /\ aret[t].rv # "0"
          /\ cret' = CreateFailed(t, "nni_cond_attr", "")
          /\ cvp' = "unset"
          /\ cblk' = 0
       \/ /\ aret[t].rv = "0"
          /\ \/ /\ cret' = CreateFailed(t, "nni_alloc", "")
                /\ cvp' = "unset"
                /\ cblk' = 0
             \/ /\ cret' = CreateFailed(t, "pthread_cond_init", aret[t].seen)
                /\ cvp' = "unset"
                /\ cblk' = 0
             \/ /\ cret' = Created(t, aret[t].seen)
                /\ cvp' = "c"
                /\ cblk' = 1
    /\ aret' = [aret EXCEPT ![t] = NoAttr]
    /\ UNCHANGED <<apc, init, attr, amx, computed, synced>>
    /\ UNCHANGED <<cvars, tvars, panic, clock, lvars>>

NextAttr ==
    \E t \in Threads :
        \/ nni_cond_attr(t)
        \/ nni_cond_create(t)
        \/ attr_lock(t)
        \/ attr_loop(t)
        \/ attr_condattr_init(t)
        \/ attr_setclock(t)
        \/ attr_setinit(t)
        \/ attr_unlock(t)

SpecAttr == Init /\ [][NextAttr]_vars

\* ---------------------------------------------------------- mutex lifecycle
\* The attribute object of nni_mutex_init is defined outside this file; it
\* carries the error-checking type the specification requires of a mutex.
nni_mutexattr == "PTHREAD_MUTEX_ERRORCHECK"

MutexType(shape) ==
    IF shape = "create" THEN "PTHREAD_MUTEX_ERRORCHECK" ELSE nni_mutexattr

\* A constructed mutex on which the locking actions above apply.
Checked == mstate = "live" /\ MutexType(mshape) = "PTHREAD_MUTEX_ERRORCHECK"

\* The native call of nni_mutex_create that fails ("": none does).
CreateFaults ==
    {"", "nni_alloc", "pthread_mutexattr_init", "pthread_mutexattr_settype",
     "pthread_mutex_init", "pthread_mutexattr_destroy"}

\* Lines 54-87.
nni_mutex_create(t) ==
    /\ Running /\ pc[t] = "idle"
    /\ mstate \in {"none", "destroyed"}
    /\ \E f \in CreateFaults :
         /\ fault' = f
         /\ \/ /\ f = "nni_alloc"
               /\ ret' = [ret EXCEPT ![t] =
                             Returned("nni_mutex_create", "NNG_ENOMEM")]
               /\ UNCHANGED <<heap, mstate, mshape, mxowner, held, panic>>
            \/ /\ f = "pthread_mutexattr_init"
               /\ ret' = [ret EXCEPT ![t] =
                             Returned("nni_mutex_create", "NNG_ENOMEM")]
               /\ UNCHANGED <<heap, mstate, mshape, mxowner, held, panic>>
            \/ /\ f = "pthread_mutexattr_settype"
               /\ nni_panic(t, "pthread_mutexattr_settype failed")
               /\ heap' = heap + 1
               /\ ret' = [ret EXCEPT ![t] = NoRet]
               /\ UNCHANGED <<mstate, mshape, mxowner, held>>
            \/ /\ f = "pthread_mutexattr_destroy"
               /\ nni_panic(t, "pthread_mutexattr_destroy failed")
               /\ heap' = heap + 1
               /\ ret' = [ret EXCEPT ![t] = NoRet]
               /\ UNCHANGED <<mstate, mshape, mxowner, held>>
            \/ /\ f = "pthread_mutex_init"
               /\ ret' = [ret EXCEPT ![t] =
                             Returned("nni_mutex_create", "NNG_ENOMEM")]
               /\ UNCHANGED <<heap, mstate, mshape, mxowner, held, panic>>
            \/ /\ f = ""
               /\ heap' = heap + 1
               /\ mstate' = "live"
               /\ mshape' = "create"
               /\ mxowner' = 0
               /\ held' = {}
               /\ ret' = [ret EXCEPT ![t] = Returned("nni_mutex_create", "0")]
               /\ UNCHANGED panic
    /\ UNCHANGED <<pc, clock, dl, owed, misuse>>
    /\ UNCHANGED <<avars, tvars, crvars>>

\* Lines 33-40.
nni_mutex_init(t) ==
    /\ Running /\ pc[t] = "idle"
    /\ mstate \in {"none", "destroyed"}
    /\ \/ /\ fault' = "pthread_mutex_init"
          /\ ret' = [ret EXCEPT ![t] = Returned("nni_mutex_init", "NNG_ENOMEM")]
          /\ UNCHANGED <<mstate, mshape, mxowner, held>>
       \/ /\ fault' = ""
          /\ mstate' = "live"
          /\ mshape' = "init"
          /\ mxowner' = 0
          /\ held' = {}
          /\ ret' = [ret EXCEPT ![t] = Returned("nni_mutex_init", "0")]
    /\ UNCHANGED <<pc, panic, clock, dl, owed, heap, misuse>>
    /\ UNCHANGED <<avars, tvars, crvars>>

\* pthread_mutex_destroy at lines 47 and 93.  On an unlocked mutex it
\* returns 0.  Destroying a locked mutex is undefined in POSIX: an
\* implementation that detects it returns EBUSY, one that does not returns 0.
DestroyResults == IF mxowner = 0 THEN {"0"} ELSE {"EBUSY", "0"}

\* nni_mutex_destroy without the nni_free of line 96.
nni_mutex_destroy_no_free(t) ==
    /\ Running /\ \A u \in Threads : pc[u] = "idle"
    /\ mstate = "live" /\ mshape = "create"
    /\ misuse' = IF mxowner # 0 THEN "destroy_held" ELSE misuse
    /\ \E rv \in DestroyResults :
          \/ /\ rv # "0"
             /\ nni_panic(t, "pthread_mutex_destroy failed")
             /\ UNCHANGED <<mstate, heap>>
          \/ /\ rv = "0"
             /\ mstate' = "destroyed"
             /\ UNCHANGED <<panic, heap>>
    /\ ret' = [ret EXCEPT ![t] = NoRet]
    /\ UNCHANGED <<pc, mxowner, held, clock, dl, owed, mshape, fault>>
    /\ UNCHANGED <<avars, tvars, crvars>>

\* Lines 90-97: a failing pthread_mutex_destroy panics before nni_free.
nni_mutex_destroy(t) ==
    /\ Running /\ \A u \in Threads : pc[u] = "idle"
    /\ mstate = "live" /\ mshape = "create"
    /\ misuse' = IF mxowner # 0 THEN "destroy_held" ELSE misuse
    /\ \E rv \in DestroyResults :
          \/ /\ rv # "0"
             /\ nni_panic(t, "pthread_mutex_destroy failed")
             /\ UNCHANGED <<mstate, heap>>
          \/ /\ rv = "0"
             /\ mstate' = "destroyed"
             /\ heap' = heap - 1
             /\ UNCHANGED panic
    /\ ret' = [ret EXCEPT ![t] = NoRet]
    /\ UNCHANGED <<pc, mxowner, held, clock, dl, owed, mshape, fault>>
    /\ UNCHANGED <<avars, tvars, crvars>>

\* Lines 43-51.
nni_mutex_fini(t) ==
    /\ Running /\ \A u \in Threads : pc[u] = "idle"
    /\ mstate = "live" /\ mshape = "init"
    /\ misuse' = IF mxowner # 0 THEN "destroy_held" ELSE misuse
    /\ \E rv \in DestroyResults :
          \/ /\ rv # "0"
             /\ nni_panic(t, "pthread_mutex_destroy failed")
             /\ UNCHANGED mstate
          \/ /\ rv = "0"
             /\ mstate' = "destroyed"
             /\ UNCHANGED panic
    /\ ret' = [ret EXCEPT ![t] = NoRet]
    /\ UNCHANGED <<pc, mxowner, held, clock, dl, owed, mshape, fault, heap>>
    /\ UNCHANGED <<avars, tvars, crvars>>

\* pthread_mutex_trylock at line 121 on a mutex that was destroyed, which
\* is undefined in POSIX: an implementation that marks destroyed mutexes
\* returns EINVAL, one that does not locks the stale object and returns 0.
TrylockDestroyedResults == {"EINVAL", "0"}

\* Lines 118-125, called after nni_mutex_destroy or nni_mutex_fini.
nni_mutex_tryenter_destroyed(t) ==
    /\ Running /\ pc[t] = "idle"
    /\ mstate = "destroyed" /\ mxowner = 0
    /\ misuse' = "tryenter_destroyed"
    /\ \E rv \in TrylockDestroyedResults :
          \/ /\ rv # "0"
             /\ ret' = [ret EXCEPT ![t] =
                           Returned("nni_mutex_tryenter", "NNG_EBUSY")]
             /\ UNCHANGED <<mxowner, held>>
          \/ /\ rv = "0"
             /\ mxowner' = t
             /\ held' = held \cup {t}
             /\ ret' = [ret EXCEPT ![t] = Returned("nni_mutex_tryenter", "0")]
    /\ UNCHANGED <<pc, panic, clock, dl, owed, mstate, mshape, heap, fault>>
    /\ UNCHANGED <<avars, tvars, crvars>>

\* No mutex has been constructed yet.
LifeNone ==
    /\ mstate = "none"
    /\ mshape = ""
    /\ heap = 0
    /\ fault = ""
    /\ misuse = ""

InitLife ==
    /\ SyncIdle
    /\ clock = U64Zero
    /\ AttrIdle
    /\ TimeIdle
    /\ LifeNone
    /\ CreateIdle

\* Construction and destruction in both shapes; between them the locking
\* calls a correct caller makes: enter by a thread that does not hold the
\* mutex, exit by the holder, tryenter by anyone.
NextLife ==
    \E t \in Threads :
        \/ nni_mutex_create(t)
        \/ nni_mutex_init(t)
        \/ nni_mutex_destroy(t)
        \/ nni_mutex_fini(t)
        \/ nni_mutex_tryenter_destroyed(t)
        \/ Checked /\ mxowner # t /\ nni_mutex_enter(t)
        \/ Checked /\ pthread_mutex_lock(t)
        \/ Checked /\ mxowner = t /\ nni_mutex_exit(t)
        \/ Checked /\ nni_mutex_tryenter(t)

SpecLife == InitLife /\ [][NextLife]_vars


\* ----------------------------------------------------------------- claims
\* C1: mutual exclusion.  In every reachable state at most one thread
\* holds the mutex, whatever the interleaving of enter, tryenter, exit,
\* wait and timed wait.
C1_MutualExclusion == \A t \in held : \A u \in held : t = u

\* One thread holds the mutex while another sleeps in pthread_mutex_lock
\* and a third was turned away by tryenter.
C1_Witness ==
    \E t \in held : \E u \in Threads \ {t} : \E w \in Threads \ {t} :
        /\ pc[u] = "lock"
        /\ ret[w] = Returned("nni_mutex_tryenter", "NNG_EBUSY")

\* C2: a thread whose last call was nni_cond_wait or nni_cond_timedwait,
\* and has returned (with 0 or NNG_ETIMEDOUT), holds the associated mutex.
C2_WaitReturnsHolding ==
    \A t \in Threads :
        ret[t].op \in {"nni_cond_wait", "nni_cond_timedwait"}
            => mxowner = t /\ t \in held

\* A timed wait has returned NNG_ETIMEDOUT while another thread still
\* sleeps in an untimed wait.
C2_Witness ==
    \E t \in Threads : \E u \in Threads \ {t} :
        /\ ret[t] = Returned("nni_cond_timedwait", "NNG_ETIMEDOUT")
        /\ pc[t] = "idle"
        /\ pc[u] = "cwait"

\* C3: monitor invariant.  A thread inside nni_cond_wait or
\* nni_cond_timedwait, between wait entry and wait exit, does not hold the
\* associated mutex.
C3_MonitorInvariant ==
    \A t \in Threads : InWait(t) => mxowner # t /\ t \notin held

\* While one thread sleeps in a wait, another has returned from
\* nni_mutex_enter and holds the mutex.
C3_Witness ==
    \E t \in Blocked : \E u \in Threads \ {t} :
        /\ ret[u] = Returned("nni_mutex_enter", "")
        /\ mxowner = u

\* C4: the deadline handed to pthread_cond_timedwait is nni_clock() + usec:
\* tv_sec its whole seconds and tv_nsec its sub-second microseconds times
\* 1000.
C4_DeadlineIsClockPlusUsec ==
    ts # NoTs =>
        LET sum == U64Sum(tsarg, clock)
        IN  /\ ts.tv_sec = <<sum[1], sum[2]>>
            /\ ts.tv_nsec = sum[3] * NSEC_PER_USEC

\* C5: a timed wait that a signal or broadcast was addressed to before
\* nni_clock() reached entry time + usec returns 0, not NNG_ETIMEDOUT.
C5_SignalledBeforeDeadlineReturnsZero ==
    [][\A t \in Threads :
          (owed[t] # "" /\ pc[t] \in Timed /\ pc'[t] = "idle")
              => ret'[t] = Returned("nni_cond_timedwait", "0")]_vars

\* C6: a timed wait called with usec = 0 times out at once and returns
\* NNG_ETIMEDOUT; every timed wait returns once nni_clock() has reached
\* entry time + usec; the call does not panic when the caller holds the
\* mutex.
C6_TimedWaitTerminates ==
    /\ \A t \in Threads :
          pc[t] = "ttimeo"
              ~> (ret[t] = Returned("nni_cond_timedwait", "NNG_ETIMEDOUT") \/ ~Running)
    /\ \A t \in Threads :
          (pc[t] \in Timed /\ U64Leq(dl[t], clock)) ~> (pc[t] = "idle" \/ ~Running)
    /\ [][\A t \in Threads :
             (pc[t] = "idle" /\ pc'[t] \in Timed /\ dl'[t] = clock)
                 => pc'[t] = "ttimeo"]_vars
    /\ [][(panic' # panic /\ panic'.msg = "pthread_cond_timedwait returned")
             => mxowner # panic'.by]_vars

\* A thread called the timed wait with usec = 0 at time 0 and has timed out
\* while another thread holds the mutex it must re-acquire.
C6_Witness ==
    \E t \in Threads : \E u \in Threads \ {t} :
        pc[t] = "ttimeo" /\ clock = U64Zero /\ mxowner = u

\* C7 as stated: the computation step is executed exactly once in total
\* and every call returns the same attribute reference.
C7_ExactlyOnceEveryCall ==
    \A t \in Threads :
        aret[t] # NoAttr => (computed = 1 /\ aret[t].ref = "&attr")

\* C7 as amended: the computation step is completed at most once, exactly
\* once by the time any call returns success; every call that returns
\* success returns the same reference &attr; once init is 1 neither init
\* nor attr is written again.
C7_ComputedAtMostOnce ==
    /\ [](/\ computed <= 1
          /\ (init = 1) = (computed = 1)
          /\ \A t \in Threads :
                aret[t].rv = "0" => (computed = 1 /\ aret[t].ref = "&attr"))
    /\ [][init = 1 => (init' = 1 /\ attr' = attr /\ computed' = computed)]_vars

\* Every thread has returned success from a first round of concurrent
\* calls, one of them after another thread's call failed with NNG_ENOMEM.
C7_Witness ==
    /\ computed = 1
    /\ \E t \in Threads : \E u \in Threads \ {t} :
          /\ aret[t] = AttrFail
          /\ \A w \in Threads \ {t} : aret[w] = AttrOk("clockset") /\ apc[w] = "idle"
          /\ u \notin synced

\* C8: every thread inside nni_cond_wait when nni_cond_broadcast is called
\* eventually returns from nni_cond_wait (or the process has panicked).
C8_BroadcastWakesAll ==
    \A t \in Threads :
        (owed[t] = "broadcast" /\ pc[t] \in Untimed)
            ~> (ret[t] = Returned("nni_cond_wait", "") \/ ~Running)

\* Two threads were inside nni_cond_wait at a broadcast and the third
\* thread holds the mutex.
C8_Witness ==
    \E t \in Threads : \E u \in Threads \ {t} : \E b \in Threads \ {t, u} :
        /\ owed[t] = "broadcast" /\ pc[t] = "cwoken"
        /\ owed[u] = "broadcast" /\ pc[u] = "cwoken"
        /\ mxowner = b

\* C9: nni_cond_signal releases at least one of the threads blocked in a
\* wait, and a released thread can return as soon as the mutex is free; with
\* no thread blocked the call changes nothing; it never panics.
C9_SignalWakesOne ==
    /\ [][\A s \in Threads :
             nni_cond_signal(s) =>
                 /\ Blocked # {} =>
                        \E w \in Blocked : pc'[w] \in {"cwoken", "twoken"}
                 /\ Blocked = {} =>
                        /\ pc' = pc /\ mxowner' = mxowner /\ held' = held
                        /\ ret' = ret /\ dl' = dl
                 /\ panic' = panic]_vars
    /\ [](\A t \in Threads :
             (Running /\ mxowner = 0) =>
                 /\ pc[t] = "cwoken" => ENABLED cond_wait_return(t)
                 /\ pc[t] = "twoken" => ENABLED cond_timedwait_return(t))

\* A signal released one of two blocked threads; the other still sleeps.
C9_Witness ==
    \E t \in Threads : \E u \in Threads \ {t} :
        /\ owed[t] = "signal" /\ pc[t] \in {"cwoken", "twoken"}
        /\ pc[u] \in {"cwait", "twait"}

\* C10: every nni_mutex_enter eventually returns with the caller holding
\* the mutex or the process panics; a second nni_mutex_enter by the holder
\* never returns, so it ends in nni_panic.
C10_EnterReturnsOrPanics ==
    /\ \A t \in Threads :
          pc[t] = "lock"
              ~> ((ret[t] = Returned("nni_mutex_enter", "") /\ t \in held) \/ ~Running)
    /\ [][\A t \in Threads :
             (pc[t] = "lock" /\ mxowner = t)
                 => (pc'[t] = "lock" /\ mxowner' = t)]_vars

\* The holder is inside a second nni_mutex_enter while another thread
\* sleeps in pthread_mutex_lock.
C10_Witness ==
    \E t \in Threads : \E u \in Threads \ {t} :
        pc[t] = "lock" /\ mxowner = t /\ pc[u] = "lock"

\* C11: nni_mutex_tryenter on a mutex that is held, by another thread or by
\* the caller, returns NNG_EBUSY at once: the caller is not suspended, the
\* holder does not change, and the process does not panic.
C11_TryenterBusy ==
    [][\A t \in Threads :
          (nni_mutex_tryenter(t) /\ mxowner # 0) =>
              /\ ret'[t] = Returned("nni_mutex_tryenter", "NNG_EBUSY")
              /\ pc'[t] = "idle"
              /\ mxowner' = mxowner /\ held' = held
              /\ panic' = panic]_vars

\* The holder itself was turned away by nni_mutex_tryenter and still holds
\* the mutex, while another thread was turned away too.
C11_Witness ==
    \E t \in Threads : \E u \in Threads \ {t} :
        /\ mxowner = t /\ t \in held /\ pc[t] = "idle" /\ pc[u] = "idle"
        /\ ret[t] = Returned("nni_mutex_tryenter", "NNG_EBUSY")
        /\ ret[u] = Returned("nni_mutex_tryenter", "NNG_EBUSY")
        /\ Running

\* C12: nni_mutex_tryenter returns NNG_EBUSY only when the mutex is held
\* at the call; a pthread_mutex_trylock failure for any other reason is not
\* reported as NNG_EBUSY.
C12_BusyOnlyWhenHeld ==
    [][\A t \in Threads :
          (/\ ret'[t] = Returned("nni_mutex_tryenter", "NNG_EBUSY")
           /\ ret'[t] # ret[t]) => mxowner # 0]_vars

\* C13: in nni_mutex_create a failure of attribute setup
\* (pthread_mutexattr_init, pthread_mutexattr_settype or
\* pthread_mutexattr_destroy) ends in nni_panic and is never returned to
\* the caller.
C13_AttrSetupFailureIsFatal ==
    fault \in {"pthread_mutexattr_init", "pthread_mutexattr_settype",
               "pthread_mutexattr_destroy"} => ~Running

\* C14: nni_mutex_destroy or nni_mutex_fini called while a thread holds
\* the mutex ends in nni_panic, with the mutex not destroyed and, for
\* nni_mutex_destroy, its storage not released.
C14_DestroyHeldIsFatal ==
    misuse = "destroy_held" =>
        /\ panic.msg = "pthread_mutex_destroy failed"
        /\ mstate = "live"
        /\ mshape = "create" => heap = 1

\* C15: nni_mutex_exit by a thread that does not hold a mutex made by
\* nni_mutex_create (the mutex is free, or another thread holds it) ends
\* in nni_panic and leaves the holder as it was.
C15_ExitByNonHolderIsFatal ==
    [][\A t \in Threads :
          (/\ mstate = "live" /\ mshape = "create"
           /\ nni_mutex_exit(t) /\ mxowner # t) =>
              /\ panic' = [by |-> t, msg |-> "pthread_mutex_unlock failed"]
              /\ mxowner' = mxowner /\ held' = held]_vars

\* A thread panicked in nni_mutex_exit while another thread holds the
\* mutex, which it still does.
C15_Witness ==
    \E t \in Threads : \E u \in Threads \ {t} :
        /\ panic = [by |-> t, msg |-> "pthread_mutex_unlock failed"]
        /\ mxowner = u /\ u \in held
        /\ mshape = "create"

\* C16: in both lifecycle shapes a successful construction, enter/exit
\* pairs and the destruction never panic, leave the mutex held by no
\* thread and, for create/destroy, release exactly the block allocated:
\* as long as no construction failed and no caller broke the contract, the
\* process runs, a live mutex owns one block if it was created and none if
\* it was initialised in place, and a destroyed one owns none.
C16_RoundTrip ==
    (misuse = "" /\ fault = "") =>
        /\ Running
        /\ mstate = "live" => heap = (IF mshape = "create" THEN 1 ELSE 0)
        /\ mstate = "destroyed" => (mxowner = 0 /\ held = {} /\ heap = 0)
        /\ mstate = "none" => heap = 0

\* Both shapes went round: a created mutex was held (a tryenter found it
\* busy), released and destroyed, and the mutex initialised in place after
\* it has been finalised.
C16_Witness ==
    \E t \in Threads : \E u \in Threads \ {t} :
        /\ mstate = "destroyed" /\ mshape = "init"
        /\ misuse = "" /\ fault = "" /\ Running
        /\ ret[t] = Returned("nni_mutex_create", "0")
        /\ ret[u] = Returned("nni_mutex_tryenter", "NNG_EBUSY")
        /\ mxowner = 0 /\ heap = 0

\* C17: on each failure path of nni_cond_create (nni_cond_attr fails,
\* nni_alloc fails, pthread_cond_init fails) the call returns NNG_ENOMEM,
\* has not written *cvp, has left no block allocated, and the mutex it was
\* given is as it was.
C17_CreateFailureIsClean ==
    /\ cret.why # "" => (cret.rv = "NNG_ENOMEM" /\ cvp = "unset" /\ cblk = 0)
    /\ cret.rv = "0" => (cret.why = "" /\ cvp = "c" /\ cblk = 1)
    /\ mxowner = 0 /\ held = {} /\ mstate = "live"

\* The latest call failed in pthread_cond_init, after its nni_alloc and
\* with the configured attribute.
C17_Witness ==
    /\ cret.why = "pthread_cond_init" /\ cret.passed = "clockset"
    /\ cret.rv = "NNG_ENOMEM" /\ cvp = "unset" /\ cblk = 0
    /\ Running

\* C18: a call of nni_cond_attr that returns success returns an attribute
\* the caller sees initialised and with its clock set, and nni_cond_create
\* never hands pthread_cond_init an attribute in any other state.
C18_SafePublication ==
    /\ \A t \in Threads : aret[t].rv = "0" => aret[t].seen = "clockset"
    /\ cret.passed \in {"", "clockset"}

\* C19: a call of nni_cond_attr in which pthread_condattr_init fails
\* returns NNG_ENOMEM with the internal lock released and init still 0, and
\* no thread is outside the locked region of nni_cond_attr while it owns
\* the internal lock.
C19_FailureReleasesLock ==
    /\ [](\A t \in Threads : apc[t] \in {"idle", "lock"} => amx # t)
    /\ [][\A t \in Threads :
            (apc[t] = "condattr_init" /\ aret'[t] = AttrFail) =>
                (init = 0 /\ init' = 0 /\ amx = t /\ amx' = 0)]_vars

\* After one thread's call failed, another thread has taken the internal
\* lock, found init still 0, and is about to retry pthread_condattr_init.
C19_Witness ==
    \E t \in Threads : \E u \in Threads \ {t} :
        /\ aret[t] = AttrFail /\ apc[t] = "idle"
        /\ amx = u /\ apc[u] = "condattr_init"
        /\ init = 0 /\ Running

\* C20: for every clock reading and every usec the timespec built by
\* nni_cond_timedwait is valid (0 <= tv_nsec < 10^9) and denotes an instant
\* that is not later than the true deadline nni_clock() + usec, also when
\* the 64-bit addition wraps.
C20_TimespecValidAndNotLate ==
    ts # NoTs =>
        LET sum == U64Sum(tsarg, clock)
            instant == <<ts.tv_sec[1], ts.tv_sec[2],
                         ts.tv_nsec \div NSEC_PER_USEC>>
        IN  /\ ValidTimespec(ts)
            /\ ts.tv_nsec % NSEC_PER_USEC = 0
            /\ U64Leq(instant, sum)

\* A timespec with a non-zero tv_nsec was built from a sum that does not
\* fit in 64 bits.
C20_Witness ==
    /\ ts # NoTs
    /\ ~U64Less(U64Sum(tsarg, clock), TwoPow64)
    /\ ts.tv_nsec > 0

==========================================================================
